---- MODULE Spec2Model ----
(***************************************************************************)
(* Model of src/index.ts of the npc-vortex-extension: the registerNpcApi   *)
(* dispatcher (single-handler form and namespace form), the endpoints it   *)
(* creates through the npc factory, and the transport's listen outcomes.   *)
(*                                                                         *)
(* JavaScript runs to completion: the synchronous part of one call of      *)
(* registerNpcApi (validation, the for-in loop, every create/on/listen     *)
(* call of every sibling, Promise.all) is one action.  A listen outcome    *)
(* arrives from the transport in a later turn; the continuation after      *)
(* `await npc.listen(..)` and the Promise.all reaction run in the          *)
(* microtasks of that turn and belong to the same action.                  *)
(*                                                                         *)
(* registerNpcApi keeps no state between calls, so a behaviour follows one *)
(* top-level call.                                                         *)
(*                                                                         *)
(* createNexusApi keeps one variable, the cached client nexusApi; each     *)
(* call of getNexus is a process that gives way at its awaits, where other *)
(* calls and changes of the host's account state interleave.               *)
(***************************************************************************)
EXTENDS Naturals, Sequences, FiniteSets, TLC

VARIABLES platform, endpoints, invs, trace, emitted, log,
          account, nexusApi, clients, gets

\* the state of the registrations, and the state of createNexusApi's closure
regVars == <<platform, endpoints, invs, trace, emitted, log>>
nexusVars == <<account, nexusApi, clients, gets>>

vars == <<platform, endpoints, invs, trace, emitted, log,
          account, nexusApi, clients, gets>>

(***************************************************************************)
(* Bounds                                                                  *)
(***************************************************************************)
\* most own properties of a namespace map passed to registerNpcApi
MaxProps == 2
\* most 'error' events the endpoints emit in one behaviour
MaxErrors == 1
\* most calls of getNexus in one behaviour
MaxCalls == 2

(***************************************************************************)
(* JavaScript values.  A string is a sequence of tokens; a token is a      *)
(* separator ("/" or "\\"), a dot, or a word without separators and dots.  *)
(***************************************************************************)
Fn(i) == [kind |-> "function", id |-> i]
Num(n) == [kind |-> "number", id |-> n]
Undefined == [kind |-> "undefined", id |-> 0]
Null == [kind |-> "null", id |-> 0]
Str(s) == [kind |-> "string", chars |-> s]
Obj(es) == [kind |-> "object", entries |-> es]
Arr(xs) == [kind |-> "array", items |-> xs]
Err(n, e) == [kind |-> "error", name |-> n, ep |-> e]

\* JavaScript truthiness, as tested by `middleware ? .. : ..` and `a && b`
Truthy(v) ==
    CASE v.kind = "undefined" -> FALSE
      [] v.kind = "null" -> FALSE
      [] v.kind = "number" -> v.id # 0
      [] v.kind = "string" -> v.chars # <<>>
      [] OTHER -> TRUE

\* obj[key] for an own property, undefined when there is none
Lookup(obj, key) ==
    IF \E i \in 1..Len(obj.entries) : obj.entries[i].key = key
    THEN obj.entries[CHOOSE i \in 1..Len(obj.entries) : obj.entries[i].key = key].value
    ELSE Undefined

HasKey(obj, key) == \E i \in 1..Len(obj.entries) : obj.entries[i].key = key

\* z.string().safeParse(v).success
zStringOk(v) == v.kind = "string"

\* callbackSchema.safeParse(v).success: v is a function
callbackSchemaOk(v) == v.kind = "function"

\* npcApiSchema.safeParse(v).success: a plain mapping whose reserved
\* `middleware` property, when present, is itself a plain mapping
npcApiSchemaOk(v) ==
    /\ v.kind = "object"
    /\ HasKey(v, <<"middleware">>) => Lookup(v, <<"middleware">>).kind = "object"

(***************************************************************************)
(* path.join of node, for relative and singly-rooted paths                 *)
(***************************************************************************)
Sep == IF platform = "win32" THEN "\\" ELSE "/"

IsSep(c) == c = "/" \/ (platform = "win32" /\ c = "\\")

RECURSIVE SplitFrom(_, _, _)
SplitFrom(s, i, cur) ==
    IF i > Len(s) THEN <<cur>>
    ELSE IF IsSep(s[i]) THEN <<cur>> \o SplitFrom(s, i + 1, <<>>)
    ELSE SplitFrom(s, i + 1, Append(cur, s[i]))

RECURSIVE normalizeString(_, _, _, _)
normalizeString(segs, i, res, allowAboveRoot) ==
    IF i > Len(segs) THEN res
    ELSE LET seg == segs[i] IN
         IF seg = <<>> \/ seg = <<".">>
         THEN normalizeString(segs, i + 1, res, allowAboveRoot)
         ELSE IF seg = <<".", ".">>
         THEN IF res # <<>> /\ res[Len(res)] # <<".", ".">>
              THEN normalizeString(segs, i + 1, SubSeq(res, 1, Len(res) - 1), allowAboveRoot)
              ELSE IF allowAboveRoot
              THEN normalizeString(segs, i + 1, Append(res, seg), allowAboveRoot)
              ELSE normalizeString(segs, i + 1, res, allowAboveRoot)
         ELSE normalizeString(segs, i + 1, Append(res, seg), allowAboveRoot)

RECURSIVE Glue(_, _)
Glue(segs, i) ==
    IF i > Len(segs) THEN <<>>
    ELSE IF i = Len(segs) THEN segs[i]
    ELSE segs[i] \o <<Sep>> \o Glue(segs, i + 1)

normalize(path) ==
    IF path = <<>> THEN <<".">>
    ELSE LET isAbsolute == IsSep(path[1])
             trailingSeparator == IsSep(path[Len(path)])
             tail == Glue(normalizeString(SplitFrom(path, 1, <<>>), 1, <<>>, ~isAbsolute), 1)
         IN IF tail = <<>>
            THEN IF isAbsolute THEN <<Sep>>
                 ELSE IF trailingSeparator THEN <<".", Sep>> ELSE <<".">>
            ELSE (IF isAbsolute THEN <<Sep>> ELSE <<>>) \o tail
                 \o (IF trailingSeparator THEN <<Sep>> ELSE <<>>)

join(a, b) ==
    normalize(IF a = <<>> THEN b
              ELSE IF b = <<>> THEN a
              ELSE a \o <<Sep>> \o b)

(***************************************************************************)
(* The npc endpoint (create, on, listen, endpoint) and the promises        *)
(***************************************************************************)
\* An invocation of registerNpcApi with its arguments, and the promise it
\* returned.
\* parent: the namespace invocation that made the call, 0 for the caller's
\* own call; ep: the endpoint of a single-handler invocation; kids: the
\* sibling invocations pushed to `promises`, in order; joined: Promise.all
\* has been called on them.
Invocation(parent, pathOrNamespace, callbackOrApi, middleware) ==
    [parent |-> parent, pathOrNamespace |-> pathOrNamespace,
     callbackOrApi |-> callbackOrApi, middleware |-> middleware,
     form |-> "none", state |-> "pending",
     value |-> Undefined, ep |-> 0, kids |-> <<>>, joined |-> FALSE]

\* create(callback) or create(callback, middleware): a new endpoint; nargs
\* is the number of arguments the factory was called with
create(st, callback, middleware, nargs) ==
    [st EXCEPT !.endpoints = Append(@, [callback |-> callback, middleware |-> middleware,
                                      nargs |-> nargs, observers |-> 0, listens |-> 0,
                                      name |-> <<>>, status |-> "created"]),
               !.trace = Append(@, [op |-> "create", ep |-> Len(st.endpoints) + 1])]

\* (mutation) the observer is attached twice
onErrorTwice(st, e) ==
    [st EXCEPT !.endpoints[e].observers = @ + 2,
               !.trace = Append(@, [op |-> "on", ep |-> e])]

\* npc.on('error', ..): one more observer of the endpoint's error event
onError(st, e) ==
    [st EXCEPT !.endpoints[e].observers = @ + 1,
               !.trace = Append(@, [op |-> "on", ep |-> e])]

\* npc.listen(name): the call is issued, its outcome is the transport's
listen(st, e, name) ==
    [st EXCEPT !.endpoints[e].listens = @ + 1,
               !.endpoints[e].name = name,
               !.endpoints[e].status = "listenPending",
               !.trace = Append(@, [op |-> "listen", ep |-> e])]

\* npc.endpoint: the name the endpoint listens under, undefined otherwise
endpointOf(ep) == IF ep.status = "listening" THEN Str(ep.name) ELSE Undefined

IsListeningEvent(ev) == ev.op = "listening"

\* (mutation) the values in the order in which the elements were fulfilled
gatherAsSettled(is, kids) ==
    LET early == SelectSeq(trace, IsListeningEvent)
        IsLate(i) == \A j \in 1..Len(early) : is[i].ep # early[j].ep
        late == SelectSeq(kids, IsLate)
    IN Arr([j \in 1..Len(early) |->
                is[CHOOSE i \in 1..Len(is) : is[i].ep = early[j].ep].value]
           \o [j \in 1..Len(late) |-> is[late[j]].value])

\* the value Promise.all fulfils with: the elements' values in the order of
\* the elements, whichever settled first
gather(is, kids) == Arr([k \in 1..Len(kids) |-> is[kids[k]].value])

\* (mutation) a settled promise is settled again
reactsAgain(is, p) == TRUE

\* a promise reacts to the settling of what it waits on only while pending
reacts(is, p) == is[p].state = "pending"

AllFulfilled(is, kids) == \A k \in 1..Len(kids) : is[kids[k]].state = "fulfilled"

\* the invocation's promise settles; a Promise.all waiting on it as one of
\* its elements reacts: it rejects with the first rejection it sees and
\* fulfils, with the values in element order, when every element has
RECURSIVE settle(_, _, _, _)
settle(is, i, state, value) ==
    LET done == [is EXCEPT ![i].state = state, ![i].value = value]
        p == is[i].parent
    IN IF p = 0 \/ ~is[p].joined \/ ~reacts(is, p) THEN done
       ELSE IF state = "rejected" THEN settle(done, p, "rejected", value)
       ELSE IF AllFulfilled(done, done[p].kids)
       THEN settle(done, p, "fulfilled", gather(done, done[p].kids))
       ELSE done

\* (mutation) Promise.all settles only on a later settling of an element
promiseAllLazy(is, me) == [is EXCEPT ![me].joined = TRUE]

\* Promise.all(promises) over promises that may have settled already
promiseAll(is, me) ==
    LET kids == is[me].kids
        bad == {k \in 1..Len(kids) : is[kids[k]].state = "rejected"}
        all == [is EXCEPT ![me].joined = TRUE]
    IN IF bad # {}
       THEN settle(all, me, "rejected",
                   is[kids[CHOOSE k \in bad : \A j \in bad : k <= j]].value)
       ELSE IF AllFulfilled(is, kids)
       THEN settle(all, me, "fulfilled", gather(is, kids))
       ELSE all

(***************************************************************************)
(* registerNpcApi                                                          *)
(***************************************************************************)
\* a throw inside the async function: its promise is rejected
throw(st, me, error) == [st EXCEPT !.invs = settle(@, me, "rejected", error)]

\* (mutation) listen is called before the observer is attached
registerSingleListenFirst(st, me, path, callback, middleware) ==
    IF Truthy(middleware) /\ ~callbackSchemaOk(middleware)
    THEN throw(st, me, Err("ZodError", 0))
    ELSE LET e == Len(st.endpoints) + 1
             made == IF Truthy(middleware)
                     THEN create(st, callback, middleware, 2)
                     ELSE create(st, callback, Undefined, 1)
             heard == onError(listen(made, e, join(<<"vortex">>, path)), e)
         IN [heard EXCEPT !.invs[me].form = "single", !.invs[me].ep = e]

\* the single-handler branch
registerSingle(st, me, path, callback, middleware) ==
    IF Truthy(middleware) /\ ~callbackSchemaOk(middleware)
    THEN throw(st, me, Err("ZodError", 0))
    ELSE LET e == Len(st.endpoints) + 1
             made == IF Truthy(middleware)
                     THEN create(st, callback, middleware, 2)
                     ELSE create(st, callback, Undefined, 1)
             heard == listen(onError(made, e), e, join(<<"vortex">>, path))
         IN [heard EXCEPT !.invs[me].form = "single", !.invs[me].ep = e]

RECURSIVE registerNpcApi(_, _, _, _, _)
RECURSIVE forIn(_, _, _, _, _)

IsFunctionEntry(en) == en.value.kind = "function"

\* (mutation) any function of api.middleware, whatever its key
middlewareOfAny(api, property) ==
    LET mws == Lookup(api, <<"middleware">>)
        fns == IF mws.kind = "object" THEN SelectSeq(mws.entries, IsFunctionEntry) ELSE <<>>
    IN IF fns # <<>> THEN fns[1].value ELSE Undefined

\* api.middleware?.[property]
middlewareOf(api, property) ==
    LET mws == Lookup(api, <<"middleware">>)
    IN IF mws.kind = "object" THEN Lookup(mws, property) ELSE Undefined

\* (mutation) the loop passes over nothing
skipsNothing(value) == FALSE

\* the loop passes over a property whose value is no handler
skips(value) == ~callbackSchemaOk(value)

\* (mutation) the middleware is passed on without the safeParse test
middlewareForUnchecked(api, property) ==
    IF Truthy(middlewareOf(api, property)) THEN middlewareOf(api, property) ELSE Undefined

\* the third argument of the recursive call for property: its middleware
\* when there is one and it is handler-shaped, none (undefined) otherwise
middlewareFor(api, property) ==
    IF Truthy(middlewareOf(api, property)) /\ callbackSchemaOk(middlewareOf(api, property))
    THEN middlewareOf(api, property)
    ELSE Undefined

\* (mutation) the loop awaits each registration: within the call only the
\* first handler-valued property is started
forInAwaiting(st, me, namespace, api, i) ==
    IF i > Len(api.entries) THEN st
    ELSE LET property == api.entries[i].key
         IN IF skips(api.entries[i].value)
            THEN forIn(st, me, namespace, api, i + 1)
            ELSE LET kid == Len(st.invs) + 1
                     called == registerNpcApi(st, me, Str(join(namespace, property)),
                                              api.entries[i].value,
                                              middlewareFor(api, property))
                 IN [called EXCEPT !.invs[me].kids = Append(@, kid)]

\* the namespace branch's loop over the properties of api, from the i-th
forIn(st, me, namespace, api, i) ==
    IF i > Len(api.entries) THEN st
    ELSE LET property == api.entries[i].key
         IN IF skips(api.entries[i].value)
            THEN forIn(st, me, namespace, api, i + 1)
            ELSE LET kid == Len(st.invs) + 1
                     called == registerNpcApi(st, me, Str(join(namespace, property)),
                                              api.entries[i].value,
                                              middlewareFor(api, property))
                 IN forIn([called EXCEPT !.invs[me].kids = Append(@, kid)],
                          me, namespace, api, i + 1)

\* (mutation) the map is validated after the loop has run
registerBatchThenParse(st, me, namespace, callbackOrApi) ==
    LET looped == IF callbackOrApi.kind = "object"
                  THEN forIn([st EXCEPT !.invs[me].form = "batch"], me, namespace,
                             callbackOrApi, 1)
                  ELSE st
    IN IF ~npcApiSchemaOk(callbackOrApi)
       THEN throw(looped, me, Err("ZodError", 0))
       ELSE [looped EXCEPT !.invs = promiseAll(@, me),
                           !.trace = Append(@, [op |-> "all", ep |-> 0])]

\* the namespace branch
registerBatch(st, me, namespace, callbackOrApi) ==
    IF ~npcApiSchemaOk(callbackOrApi)
    THEN throw(st, me, Err("ZodError", 0))
    ELSE LET looped == forIn([st EXCEPT !.invs[me].form = "batch"], me, namespace,
                             callbackOrApi, 1)
         IN [looped EXCEPT !.invs = promiseAll(@, me),
                           !.trace = Append(@, [op |-> "all", ep |-> 0])]

\* (mutation) the first argument is converted to a string, not validated
registerNpcApiCoercing(st, parent, pathOrNamespace, callbackOrApi, middleware) ==
    LET me == Len(st.invs) + 1
        begun == [st EXCEPT !.invs = Append(@, Invocation(parent, pathOrNamespace,
                                                          callbackOrApi, middleware))]
        chars == IF zStringOk(pathOrNamespace) THEN pathOrNamespace.chars ELSE <<"42">>
    IN IF callbackSchemaOk(callbackOrApi)
       THEN registerSingle(begun, me, chars, callbackOrApi, middleware)
       ELSE registerBatch(begun, me, chars, callbackOrApi)

\* (mutation) three arguments select the single-handler branch
registerNpcApiByCount(st, parent, pathOrNamespace, callbackOrApi, middleware) ==
    LET me == Len(st.invs) + 1
        begun == [st EXCEPT !.invs = Append(@, Invocation(parent, pathOrNamespace,
                                                          callbackOrApi, middleware))]
    IN IF ~zStringOk(pathOrNamespace)
       THEN throw(begun, me, Err("ZodError", 0))
       ELSE IF middleware.kind # "undefined" \/ callbackSchemaOk(callbackOrApi)
       THEN registerSingle(begun, me, pathOrNamespace.chars, callbackOrApi, middleware)
       ELSE registerBatch(begun, me, pathOrNamespace.chars, callbackOrApi)

\* one call, up to the point where it returns its promise
registerNpcApi(st, parent, pathOrNamespace, callbackOrApi, middleware) ==
    LET me == Len(st.invs) + 1
        begun == [st EXCEPT !.invs = Append(@, Invocation(parent, pathOrNamespace,
                                                          callbackOrApi, middleware))]
    IN IF ~zStringOk(pathOrNamespace)
       THEN throw(begun, me, Err("ZodError", 0))
       ELSE IF callbackSchemaOk(callbackOrApi)
       THEN registerSingle(begun, me, pathOrNamespace.chars, callbackOrApi, middleware)
       ELSE registerBatch(begun, me, pathOrNamespace.chars, callbackOrApi)

(***************************************************************************)
(* The arguments a caller may pass                                         *)
(***************************************************************************)
Keys == {<<"a">>, <<"b">>, <<"middleware">>}

\* the value of property a or b: a handler of its own, a number, or (b) a
\* nested map that holds a handler
Leaves ==
    [k \in Keys |-> IF k = <<"a">> THEN {Fn(1), Num(42)}
                    ELSE {Fn(4), Num(42), Obj(<<[key |-> <<"a">>, value |-> Fn(6)]>>)}]

\* the value of middleware.a or middleware.b: a function of its own, a
\* number, or null
MiddlewareLeaves ==
    [k \in Keys |-> IF k = <<"a">> THEN {Fn(2), Num(42), Null} ELSE {Fn(5), Num(42), Null}]

\* all sequences of distinct keys of the set ks
RECURSIVE Orders(_)
Orders(ks) ==
    IF ks = {} THEN {<<>>}
    ELSE UNION {{<<k>> \o o : o \in Orders(ks \ {k})} : k \in ks}

\* the objects with the keys of order o, each holding a value of vals[key]
ObjectsOver(o, vals) ==
    {Obj([i \in 1..Len(o) |-> [key |-> o[i], value |-> f[i]]]) :
        f \in [1..Len(o) -> UNION {vals[k] : k \in Keys}] \cap
              {g \in [1..Len(o) -> UNION {vals[k] : k \in Keys}] :
                  \A i \in 1..Len(o) : g[i] \in vals[o[i]]}}

\* the `middleware` sub-maps: each of a, b absent, a function, a number or null
MiddlewareMaps ==
    UNION {ObjectsOver(o, MiddlewareLeaves) :
              o \in {<<>>, <<<<"a">>>>, <<<<"b">>>>, <<<<"a">>, <<"b">>>>}}

\* what each property of a namespace map may hold
PropertyValues ==
    [k \in Keys |-> IF k = <<"middleware">>
                    THEN MiddlewareMaps \cup {Fn(2), Num(42)}
                    ELSE Leaves[k]]

NamespaceMaps ==
    UNION {ObjectsOver(o, PropertyValues) :
              o \in UNION {Orders(ks) : ks \in {x \in SUBSET Keys : Cardinality(x) <= MaxProps}}}

FirstArgs == {Num(42), Str(<<>>), Str(<<".">>), Str(<<"n">>)}
SecondArgs == {Fn(1), Num(42)} \cup NamespaceMaps

\* the third argument: absent, null, zero, another number or a function;
\* with a map as second argument, absent or a function
ThirdArgs(a2) ==
    IF a2.kind = "object" THEN {Undefined, Fn(3)}
    ELSE {Undefined, Null, Num(0), Num(42), Fn(3)}

\* the values an endpoint may emit with its 'error' event
Errors == {[message |-> "EPIPE"]}

(***************************************************************************)
(* The state machine                                                       *)
(***************************************************************************)
Init ==
    /\ platform \in {"posix", "win32"}
    /\ endpoints = <<>>
    /\ invs = <<>>
    /\ trace = <<>>
    /\ emitted = <<>>
    /\ log = <<>>
    /\ account = Undefined
    /\ nexusApi = 0
    /\ clients = <<>>
    /\ gets = <<>>

\* no call has been made yet
Idle == invs = <<>>

\* the caller calls registerNpcApi(a1, a2, a3)
Register(a1, a2, a3) ==
    /\ Idle
    /\ LET st == registerNpcApi([endpoints |-> endpoints, invs |-> invs, trace |-> trace],
                                0, a1, a2, a3)
       IN /\ endpoints' = st.endpoints
          /\ invs' = st.invs
          /\ trace' = st.trace
    /\ UNCHANGED <<platform, emitted, log>>
    /\ UNCHANGED nexusVars

\* the invocation whose endpoint is e
Owner(e) == CHOOSE i \in 1..Len(invs) : invs[i].ep = e

\* the transport reports that endpoint e listens: `await npc.listen(..)`
\* returns and the invocation returns npc.endpoint
ListenSucceeds(e) ==
    /\ endpoints[e].status = "listenPending"
    /\ endpoints' = [endpoints EXCEPT ![e].status = "listening"]
    /\ invs' = settle(invs, Owner(e), "fulfilled", endpointOf(endpoints'[e]))
    /\ trace' = Append(trace, [op |-> "listening", ep |-> e])
    /\ UNCHANGED <<platform, emitted, log>>
    /\ UNCHANGED nexusVars

\* (mutation) a failure closes the endpoints of the other siblings
ListenFailsAndCloses(e) ==
    /\ endpoints[e].status = "listenPending"
    /\ endpoints' = [x \in 1..Len(endpoints) |->
                        IF x = e THEN [endpoints[x] EXCEPT !.status = "listenFailed"]
                        ELSE [endpoints[x] EXCEPT !.status = "closed"]]
    /\ invs' = settle(invs, Owner(e), "rejected", Err("ListenError", e))
    /\ trace' = Append(trace, [op |-> "failed", ep |-> e])
    /\ UNCHANGED <<platform, emitted, log>>
    /\ UNCHANGED nexusVars

\* the transport reports a failure: `await npc.listen(..)` throws
ListenFails(e) ==
    /\ endpoints[e].status = "listenPending"
    /\ endpoints' = [endpoints EXCEPT ![e].status = "listenFailed"]
    /\ invs' = settle(invs, Owner(e), "rejected", Err("ListenError", e))
    /\ trace' = Append(trace, [op |-> "failed", ep |-> e])
    /\ UNCHANGED <<platform, emitted, log>>
    /\ UNCHANGED nexusVars

\* (mutation) the observer logs at another level
errorObserverAsError(error) == [level |-> "error", message |-> error.message, details |-> error]

\* the observer registered by npc.on('error', ..)
errorObserver(error) == [level |-> "warn", message |-> error.message, details |-> error]

\* endpoint e emits 'error' with the value error: every observer runs
EmitError(e, error) ==
    /\ Len(emitted) < MaxErrors
    /\ emitted' = Append(emitted, [ep |-> e, error |-> error, during |-> endpoints[e].status])
    /\ log' = log \o [k \in 1..endpoints[e].observers |-> errorObserver(error)]
    /\ UNCHANGED <<platform, endpoints, invs, trace>>
    /\ UNCHANGED nexusVars

Next ==
    \/ Idle /\ \E a1 \in FirstArgs, a2 \in SecondArgs : \E a3 \in ThirdArgs(a2) :
                    Register(a1, a2, a3)
    \/ \E e \in 1..Len(endpoints) : ListenSucceeds(e)
    \/ \E e \in 1..Len(endpoints) : ListenFails(e)
    \/ \E e \in 1..Len(endpoints), error \in Errors : EmitError(e, error)

Spec == Init /\ [][Next]_vars

\* the transport answers some pending listen call
ListenSettles == \E e \in 1..Len(endpoints) : ListenSucceeds(e) \/ ListenFails(e)

\* the transport answers every listen call in the end
SpecFair == Init /\ [][Next]_vars /\ WF_vars(ListenSettles)

(***************************************************************************)
(* Calls in the way of main(): a namespace and a map of handlers, over a   *)
(* wider choice of namespaces and property names                           *)
(***************************************************************************)
\* property names: empty, the current and parent markers, plain names, and a
\* name that holds a separator
Names == {<<>>, <<".">>, <<".", ".">>, <<"ping">>, <<"getGames">>, <<".", "/", "ping">>}

\* the namespaces main() passes, and the empty one
Namespaces == {Str(<<>>), Str(<<".">>), Str(<<"nexus">>)}

\* the maps of handlers over distinct names, in every order
NamedMaps ==
    {Obj([i \in 1..Len(o) |-> [key |-> o[i], value |-> Fn(i)]]) :
        o \in UNION {Orders(ks) : ks \in {x \in SUBSET Names :
                                            /\ Cardinality(x) >= 1
                                            /\ Cardinality(x) <= MaxProps}}}

NextNames ==
    \/ Idle /\ \E namespace \in Namespaces, api \in NamedMaps :
                    Register(namespace, api, Undefined)
    \/ \E e \in 1..Len(endpoints) : ListenSucceeds(e)
    \/ \E e \in 1..Len(endpoints) : ListenFails(e)

SpecNames == Init /\ [][NextNames]_vars

(***************************************************************************)
(* createNexusApi: getNexus and the client it caches.                      *)
(* account is account.nexus?.APIKey of the host's state; nexusApi is the   *)
(* cached client (an index of clients, 0 for undefined); clients are the   *)
(* clients Nexus.create has made, each with the key it was validated       *)
(* with; gets are the calls of getNexus, each with the place it waits at   *)
(* (pc), the key it read after the login, its promise, and the calls that  *)
(* were under way when it began (peers).                                   *)
(***************************************************************************)
\* the values of account.nexus?.APIKey: absent, empty, or a key
AccountKeys == {Undefined, Str(<<>>), Str(<<"k1">>), Str(<<"k2">>)}

\* nexusApi.getValidationResult()?.key
validatedKey(cs, client) == cs[client].key

\* the cached client may be handed out
cacheValid(cs, cached, APIKey) ==
    /\ cached # 0
    /\ Truthy(APIKey)
    /\ APIKey = validatedKey(cs, cached)

\* the calls of getNexus whose promise is pending
InFlight == {c \in 1..Len(gets) : gets[c].state = "pending"}

\* a handler calls getNexus(): the cached client at once, or the start of
\* the asynchronous path up to `await api.ext.ensureLoggedIn?.()`
GetNexus ==
    /\ Len(gets) < MaxCalls
    /\ gets' = Append(gets,
                 IF cacheValid(clients, nexusApi, account)
                 THEN [pc |-> "done", state |-> "fulfilled", value |-> nexusApi,
                       via |-> "cache", read |-> account, key |-> Undefined,
                       peers |-> InFlight]
                 ELSE [pc |-> "ensureLoggedIn", state |-> "pending", value |-> 0,
                       via |-> "create", read |-> account, key |-> Undefined,
                       peers |-> InFlight])
    /\ UNCHANGED <<account, nexusApi, clients>>
    /\ UNCHANGED regVars

\* ensureLoggedIn has resolved: the account is read again; with a key the
\* call goes on to `await util.currentGame(api.store)`, without one it
\* rejects
LoggedIn(c) ==
    /\ gets[c].pc = "ensureLoggedIn"
    /\ gets' = IF Truthy(account)
               THEN [gets EXCEPT ![c].pc = "currentGame", ![c].read = account,
                                 ![c].key = account]
               ELSE [gets EXCEPT ![c].pc = "done", ![c].read = account,
                                 ![c].state = "rejected"]
    /\ UNCHANGED <<account, nexusApi, clients>>
    /\ UNCHANGED regVars

\* util.currentGame has resolved: Nexus.create is called with the key read
\* before
CurrentGame(c) ==
    /\ gets[c].pc = "currentGame"
    /\ gets' = [gets EXCEPT ![c].pc = "Nexus.create"]
    /\ UNCHANGED <<account, nexusApi, clients>>
    /\ UNCHANGED regVars

\* Nexus.create has resolved with a new client, which is cached and returned
Created(c) ==
    /\ gets[c].pc = "Nexus.create"
    /\ clients' = Append(clients, [key |-> gets[c].key, by |-> c])
    /\ nexusApi' = Len(clients) + 1
    /\ gets' = [gets EXCEPT ![c].pc = "done", ![c].state = "fulfilled",
                            ![c].value = Len(clients) + 1]
    /\ UNCHANGED account
    /\ UNCHANGED regVars

\* the promise the call awaits is rejected: the call rejects
Rejected(c) ==
    /\ gets[c].pc \in {"ensureLoggedIn", "currentGame", "Nexus.create"}
    /\ gets' = [gets EXCEPT ![c].pc = "done", ![c].state = "rejected"]
    /\ UNCHANGED <<account, nexusApi, clients>>
    /\ UNCHANGED regVars

\* the host's state changes: the user logs in, logs out or changes the key
SetAccount(APIKey) ==
    /\ APIKey # account
    /\ account' = APIKey
    /\ UNCHANGED <<nexusApi, clients, gets>>
    /\ UNCHANGED regVars

NextNexus ==
    \/ GetNexus
    \/ \E c \in 1..Len(gets) : LoggedIn(c)
    \/ \E c \in 1..Len(gets) : CurrentGame(c)
    \/ \E c \in 1..Len(gets) : Created(c)
    \/ \E c \in 1..Len(gets) : Rejected(c)
    \/ \E APIKey \in AccountKeys : SetAccount(APIKey)

SpecNexus == Init /\ [][NextNexus]_vars

(***************************************************************************)
(* Vocabulary of the properties                                            *)
(***************************************************************************)
Called == invs # <<>>

\* the caller's own call
Top == invs[1]

IsHandlerEntry(en) == en.value.kind = "function"

\* the handler-valued properties of a map, in iteration order
HandlerEntries(api) == SelectSeq(api.entries, IsHandlerEntry)

\* the name the endpoint of property key of namespace ns is to listen under
ComposedName(ns, key) == join(<<"vortex">>, join(ns, key))

\* the caller's call took the namespace form: a string, then a valid map
BatchCall ==
    /\ Called
    /\ Top.pathOrNamespace.kind = "string"
    /\ Top.callbackOrApi.kind = "object"
    /\ npcApiSchemaOk(Top.callbackOrApi)

AllListening == \A e \in 1..Len(endpoints) : endpoints[e].status = "listening"
SomeFailed == \E e \in 1..Len(endpoints) : endpoints[e].status = "listenFailed"

\* position of the first event of trace with the given op and endpoint, 0 if none
When(op, e) ==
    IF \E j \in 1..Len(trace) : trace[j] = [op |-> op, ep |-> e]
    THEN CHOOSE j \in 1..Len(trace) :
            /\ trace[j] = [op |-> op, ep |-> e]
            /\ \A h \in 1..(j - 1) : trace[h] # [op |-> op, ep |-> e]
    ELSE 0

(***************************************************************************)
(* C1: a namespace call over a map with N handler-valued properties        *)
(* creates exactly N endpoints, the k-th from the k-th handler-valued      *)
(* property in iteration order; when every listen has succeeded it is      *)
(* fulfilled with the N identifiers in that order; the other properties    *)
(* give no endpoint, no rejection (only a failed listen rejects) and no    *)
(* log entry (only error events log).                                      *)
(***************************************************************************)
C1_BatchCountAndOrder ==
    BatchCall =>
        LET hs == HandlerEntries(Top.callbackOrApi)
            ns == Top.pathOrNamespace.chars
        IN /\ Len(endpoints) = Len(hs)
           /\ \A k \in 1..Len(hs) :
                 /\ endpoints[k].callback = hs[k].value
                 /\ endpoints[k].name = ComposedName(ns, hs[k].key)
           /\ AllListening =>
                 /\ Top.state = "fulfilled"
                 /\ Top.value.kind = "array"
                 /\ Len(Top.value.items) = Len(hs)
                 /\ \A k \in 1..Len(hs) :
                       Top.value.items[k] = Str(ComposedName(ns, hs[k].key))
           /\ Top.state = "rejected" => SomeFailed
           /\ Len(log) = Len(emitted)

\* one handler beside a non-handler property, all listening
C1_Witness ==
    /\ BatchCall
    /\ Top.state = "fulfilled"
    /\ Len(Top.value.items) = 1
    /\ \E i \in 1..Len(Top.callbackOrApi.entries) :
          /\ Top.callbackOrApi.entries[i].key # <<"middleware">>
          /\ Top.callbackOrApi.entries[i].value.kind = "number"

(***************************************************************************)
(* C2: when a namespace call is fulfilled, the k-th element of its value   *)
(* is the identifier of the k-th flattened entry (the k-th handler-valued  *)
(* property), in whichever order the siblings' listen calls completed.     *)
(***************************************************************************)
C2_OrderIndependentOfCompletion ==
    (BatchCall /\ Top.state = "fulfilled") =>
        LET hs == HandlerEntries(Top.callbackOrApi)
            ns == Top.pathOrNamespace.chars
        IN /\ Len(Top.kids) = Len(hs)
           /\ Len(Top.value.items) = Len(hs)
           /\ \A k \in 1..Len(hs) :
                 /\ invs[Top.kids[k]].pathOrNamespace = Str(join(ns, hs[k].key))
                 /\ invs[Top.kids[k]].callbackOrApi = hs[k].value
                 /\ Top.value.items[k] = invs[Top.kids[k]].value
                 /\ Top.value.items[k] = Str(endpoints[invs[Top.kids[k]].ep].name)

\* two siblings, the second's listen completed before the first's
C2_Witness ==
    /\ BatchCall
    /\ Top.state = "fulfilled"
    /\ Len(Top.kids) = 2
    /\ When("listening", invs[Top.kids[2]].ep) < When("listening", invs[Top.kids[1]].ep)

(***************************************************************************)
(* C3: a call whose first argument is not a string is rejected with a      *)
(* validation error, whatever the second argument, and the factory is      *)
(* never called: no endpoint, no observer, no listen, no recursive call.   *)
(***************************************************************************)
C3_NonStringFirstArgument ==
    (Called /\ Top.pathOrNamespace.kind # "string") =>
        /\ Top.state = "rejected"
        /\ Top.value = Err("ZodError", 0)
        /\ endpoints = <<>>
        /\ trace = <<>>
        /\ Len(invs) = 1

\* a number as namespace of a map that holds a handler
C3_Witness ==
    /\ Called
    /\ Top.pathOrNamespace.kind = "number"
    /\ Top.callbackOrApi.kind = "object"
    /\ HandlerEntries(Top.callbackOrApi) # <<>>
    /\ Top.state = "rejected"

(***************************************************************************)
(* C4: a call whose first argument is the empty string is rejected with a  *)
(* validation error before any side effect: no endpoint, no listen call.   *)
(* (z.string() accepts the empty string: the statement fails.)             *)
(***************************************************************************)
C4_EmptyFirstArgument ==
    (Called /\ Top.pathOrNamespace = Str(<<>>)) =>
        /\ Top.state = "rejected"
        /\ endpoints = <<>>
        /\ trace = <<>>

(***************************************************************************)
(* C5: a call whose second argument is neither handler-shaped nor a valid  *)
(* namespace map is rejected with a validation error and creates no        *)
(* endpoint, also for the properties of the map that are valid handlers.   *)
(***************************************************************************)
C5_InvalidMapCreatesNothing ==
    (Called /\ ~callbackSchemaOk(Top.callbackOrApi) /\ ~npcApiSchemaOk(Top.callbackOrApi)) =>
        /\ Top.state = "rejected"
        /\ Top.value = Err("ZodError", 0)
        /\ endpoints = <<>>
        /\ trace = <<>>
        /\ Len(invs) = 1

\* a map with a handler and a `middleware` that is no mapping
C5_Witness ==
    /\ Called
    /\ Top.pathOrNamespace.kind = "string"
    /\ Top.callbackOrApi.kind = "object"
    /\ HandlerEntries(Top.callbackOrApi) # <<>>
    /\ ~npcApiSchemaOk(Top.callbackOrApi)
    /\ Top.state = "rejected"

\* the k-th sibling of the caller's namespace call, and its endpoint
Kid(k) == invs[Top.kids[k]]
KidEp(k) == endpoints[Kid(k).ep]

(***************************************************************************)
(* C6: in a namespace call, the step in which the first sibling is         *)
(* rejected rejects the aggregate with that sibling's error, whether or    *)
(* not other siblings' listen calls are still pending; once rejected, the  *)
(* aggregate's state and value never change.                               *)
(***************************************************************************)
C6_FirstFailureWins ==
    [][BatchCall =>
         /\ \A k \in 1..Len(Top.kids) :
               (Top.state = "pending" /\ Kid(k).state = "pending"
                   /\ invs'[Top.kids[k]].state = "rejected")
               => /\ invs'[1].state = "rejected"
                  /\ invs'[1].value = invs'[Top.kids[k]].value
                  /\ invs'[1].value = Err("ListenError", Kid(k).ep)
         /\ Top.state = "rejected" =>
               /\ invs'[1].state = "rejected"
               /\ invs'[1].value = Top.value]_vars

\* the aggregate is rejected while a sibling's listen is still pending
C6_Witness ==
    /\ BatchCall
    /\ Top.state = "rejected"
    /\ \E k \in 1..Len(Top.kids) : KidEp(k).status = "listenPending"

(***************************************************************************)
(* C7: a sibling's outcome is that of its own listen call and of nothing   *)
(* else: it is pending while its listen is pending, also after another     *)
(* sibling has failed, fulfilled when its listen succeeded and rejected    *)
(* with its own listen error when it failed; an endpoint that listens      *)
(* keeps listening and no endpoint is removed, closed or listened again.   *)
(***************************************************************************)
C7_NoRollback ==
    /\ [](BatchCall =>
            \A k \in 1..Len(Top.kids) :
               /\ Kid(k).state = "pending" <=> KidEp(k).status = "listenPending"
               /\ Kid(k).state = "fulfilled" <=> KidEp(k).status = "listening"
               /\ Kid(k).state = "rejected" <=> KidEp(k).status = "listenFailed"
               /\ Kid(k).state = "fulfilled" => Kid(k).value = Str(KidEp(k).name)
               /\ Kid(k).state = "rejected" => Kid(k).value = Err("ListenError", Kid(k).ep))
    /\ [][/\ Len(endpoints') >= Len(endpoints)
          /\ \A e \in 1..Len(endpoints) :
                /\ endpoints[e].status = "listening" => endpoints'[e].status = "listening"
                /\ endpoints'[e].status \in {endpoints[e].status, "listening", "listenFailed"}
                /\ endpoints'[e].listens = endpoints[e].listens
                /\ endpoints'[e].name = endpoints[e].name]_vars

\* one sibling failed and rejected the aggregate; the other one's listen
\* succeeded afterwards and it listens
C7_Witness ==
    /\ BatchCall
    /\ Top.state = "rejected"
    /\ \E f, g \in 1..Len(Top.kids) :
          /\ Top.value = Err("ListenError", Kid(f).ep)
          /\ KidEp(g).status = "listening"
          /\ Kid(g).state = "fulfilled"
          /\ 0 < When("failed", Kid(f).ep)
          /\ When("failed", Kid(f).ep) < When("listening", Kid(g).ep)

(***************************************************************************)
(* C8: every error event of an endpoint produces exactly one log entry,    *)
(* with level "warn", the error's message and the error value, and the     *)
(* step in which it is emitted changes no registration promise (neither a  *)
(* sibling's nor the aggregate's) and no endpoint.                         *)
(***************************************************************************)
C8_ErrorsOnlyLog ==
    /\ [](log = [i \in 1..Len(emitted) |->
                    [level |-> "warn", message |-> emitted[i].error.message,
                     details |-> emitted[i].error]])
    /\ [][emitted' # emitted => (invs' = invs /\ endpoints' = endpoints)]_vars

\* an error was emitted while the listen was pending; the call is fulfilled
C8_Witness ==
    /\ Called
    /\ Top.state = "fulfilled"
    /\ \E i \in 1..Len(emitted) : emitted[i].during = "listenPending"
    /\ Len(log) = Len(emitted)

(***************************************************************************)
(* C9: in a namespace call, a handler-valued property k whose              *)
(* middleware[k] exists and is not handler-shaped is registered all the    *)
(* same: exactly one endpoint is created from its handler, by the factory  *)
(* called with the handler alone, and neither the sibling nor the call     *)
(* is rejected unless a listen call fails.                                 *)
(***************************************************************************)
C9_InvalidMiddlewareIgnored ==
    BatchCall =>
        LET api == Top.callbackOrApi
            hs == HandlerEntries(api)
            mws == Lookup(api, <<"middleware">>)
        IN \A k \in 1..Len(hs) :
              (mws.kind = "object" /\ HasKey(mws, hs[k].key)
                  /\ ~callbackSchemaOk(Lookup(mws, hs[k].key)))
              => /\ Top.form = "batch"
                 /\ Len(Top.kids) = Len(hs)
                 /\ Cardinality({e \in 1..Len(endpoints) :
                                    endpoints[e].callback = hs[k].value}) = 1
                 /\ Kid(k).form = "single"
                 /\ KidEp(k).callback = hs[k].value
                 /\ KidEp(k).nargs = 1
                 /\ KidEp(k).middleware = Undefined
                 /\ KidEp(k).name = ComposedName(Top.pathOrNamespace.chars, hs[k].key)
                 /\ Kid(k).state = "rejected" => KidEp(k).status = "listenFailed"
                 /\ Top.state = "rejected" => SomeFailed

\* a handler with a number as its middleware, registered and listening
C9_Witness ==
    /\ BatchCall
    /\ Top.state = "fulfilled"
    /\ LET api == Top.callbackOrApi
           hs == HandlerEntries(api)
           mws == Lookup(api, <<"middleware">>)
       IN \E k \in 1..Len(hs) :
             /\ mws.kind = "object"
             /\ Lookup(mws, hs[k].key).kind = "number"

(***************************************************************************)
(* C10: in a namespace call, a handler-shaped middleware[k] whose map[k]   *)
(* is absent or not handler-shaped gives no endpoint for k, is passed to   *)
(* the factory for no endpoint, and rejects nothing; and no endpoint is    *)
(* registered under the key `middleware`.                                  *)
(***************************************************************************)
C10_OrphanMiddlewareInert ==
    BatchCall =>
        LET api == Top.callbackOrApi
            ns == Top.pathOrNamespace.chars
            mws == Lookup(api, <<"middleware">>)
        IN /\ \A e \in 1..Len(endpoints) :
                 endpoints[e].name # ComposedName(ns, <<"middleware">>)
           /\ \A k \in 1..Len(Top.kids) :
                 Kid(k).pathOrNamespace # Str(join(ns, <<"middleware">>))
           /\ mws.kind = "object" =>
                 \A i \in 1..Len(mws.entries) :
                    (callbackSchemaOk(mws.entries[i].value)
                        /\ ~callbackSchemaOk(Lookup(api, mws.entries[i].key)))
                    => /\ \A e \in 1..Len(endpoints) :
                             /\ endpoints[e].name # ComposedName(ns, mws.entries[i].key)
                             /\ endpoints[e].middleware # mws.entries[i].value
                             /\ endpoints[e].callback # mws.entries[i].value
                       /\ Len(endpoints) = Len(HandlerEntries(api))
                       /\ Len(Top.kids) = Len(HandlerEntries(api))
                       /\ Top.state = "rejected" => SomeFailed

\* a middleware for a property that is absent, beside a handler that is
\* registered and listening
C10_Witness ==
    /\ BatchCall
    /\ Top.state = "fulfilled"
    /\ Len(endpoints) = 1
    /\ LET api == Top.callbackOrApi
           mws == Lookup(api, <<"middleware">>)
       IN /\ mws.kind = "object"
          /\ \E i \in 1..Len(mws.entries) :
                /\ callbackSchemaOk(mws.entries[i].value)
                /\ ~HasKey(api, mws.entries[i].key)

\* the caller's call took the single-handler form: a string, then a handler
SingleCall ==
    /\ Called
    /\ Top.pathOrNamespace.kind = "string"
    /\ callbackSchemaOk(Top.callbackOrApi)

(***************************************************************************)
(* C11: in the single form, a supplied middleware that is not              *)
(* handler-shaped (null, 0 and the empty string included) rejects the call *)
(* with a validation error and no endpoint is created; a handler-shaped    *)
(* one gives an endpoint created with handler and middleware.              *)
(* (`middleware ? .. : ..` takes a falsy value as absent: the statement    *)
(* fails.)                                                                 *)
(***************************************************************************)
C11_MiddlewareValidated ==
    (SingleCall /\ Top.middleware.kind # "undefined") =>
        IF callbackSchemaOk(Top.middleware)
        THEN /\ Len(endpoints) = 1
             /\ endpoints[1].nargs = 2
             /\ endpoints[1].callback = Top.callbackOrApi
             /\ endpoints[1].middleware = Top.middleware
        ELSE /\ Top.state = "rejected"
             /\ Top.value = Err("ZodError", 0)
             /\ endpoints = <<>>

(***************************************************************************)
(* C14: the branch taken depends on the shape of the second argument, not  *)
(* on the number of arguments: a handler-shaped second argument takes the  *)
(* single-handler branch (no recursive call, at most one endpoint, made    *)
(* from that handler); a valid map takes the namespace branch, with or     *)
(* without a third argument, and a third argument is then passed to no     *)
(* recursive call and to no endpoint.                                      *)
(***************************************************************************)
C14_DispatchByShape ==
    /\ SingleCall =>
          /\ Top.form # "batch"
          /\ Len(invs) = 1
          /\ Len(endpoints) <= 1
          /\ Top.form = "single" \/ (Top.state = "rejected" /\ endpoints = <<>>)
          /\ \A e \in 1..Len(endpoints) : endpoints[e].callback = Top.callbackOrApi
    /\ BatchCall =>
          /\ Top.form = "batch"
          /\ Top.ep = 0
          /\ Len(Top.kids) = Len(HandlerEntries(Top.callbackOrApi))
          /\ Top.middleware.kind # "undefined" =>
                /\ \A e \in 1..Len(endpoints) :
                      /\ endpoints[e].middleware # Top.middleware
                      /\ endpoints[e].callback # Top.callbackOrApi
                /\ \A k \in 1..Len(Top.kids) :
                      invs[Top.kids[k]].middleware # Top.middleware

\* a map with a third argument: the namespace branch ran and is fulfilled
C14_Witness ==
    /\ BatchCall
    /\ Top.middleware = Fn(3)
    /\ Top.state = "fulfilled"
    /\ Len(endpoints) >= 1

(***************************************************************************)
(* C12: the path of a property is composed with the separator "/" on every *)
(* platform: namespace "." and property "ping" give "ping", namespace      *)
(* "nexus" and property "getGames" give "nexus/getGames"; and a property   *)
(* with the empty name is refused: no registration is started for it.      *)
(***************************************************************************)
C12_ComposeFixedSeparator ==
    BatchCall =>
        \A k \in 1..Len(Top.kids) :
            LET namespace == Top.pathOrNamespace.chars
                property == HandlerEntries(Top.callbackOrApi)[k].key
                path == Kid(k).pathOrNamespace
            IN /\ property # <<>>
               /\ (namespace = <<".">> /\ property = <<"ping">>) =>
                      path = Str(<<"ping">>)
               /\ (namespace = <<"nexus">> /\ property = <<"getGames">>) =>
                      path = Str(<<"nexus", "/", "getGames">>)

(***************************************************************************)
(* C13: a single-handler call for path p whose listen succeeded resolves   *)
(* to a non-empty identifier, the root segment "vortex" composed with p    *)
(* by "/" (so that p is its suffix), and the endpoint listens under        *)
(* exactly that name.                                                      *)
(***************************************************************************)
C13_IdentifierIsRootThenPath ==
    (SingleCall /\ Top.state = "fulfilled") =>
        LET p == Top.pathOrNamespace.chars
        IN /\ Top.value.kind = "string"
           /\ Top.value.chars # <<>>
           /\ Top.value = Str(<<"vortex", "/">> \o p)
           /\ endpoints[Top.ep].name = <<"vortex", "/">> \o p

(***************************************************************************)
(* C15: a namespace call starts its siblings eagerly and in order: for the *)
(* k-th handler-valued property the endpoint is created, observed and its  *)
(* listen call issued, one property after the other, before Promise.all is *)
(* called and before the outcome of any listen is processed; every listen  *)
(* call is issued whatever becomes of the other siblings' listens.         *)
(***************************************************************************)
C15_EagerOrderedStart ==
    BatchCall =>
        LET hs == HandlerEntries(Top.callbackOrApi)
            N == Len(hs)
        IN /\ Len(endpoints) = N
           /\ Len(Top.kids) = N
           /\ Len(trace) >= 3 * N + 1
           /\ \A k \in 1..N :
                 /\ trace[3 * k - 2] = [op |-> "create", ep |-> k]
                 /\ trace[3 * k - 1] = [op |-> "on", ep |-> k]
                 /\ trace[3 * k] = [op |-> "listen", ep |-> k]
                 /\ Kid(k).ep = k
                 /\ endpoints[k].callback = hs[k].value
                 /\ endpoints[k].listens = 1
                 /\ endpoints[k].status # "created"
           /\ trace[3 * N + 1] = [op |-> "all", ep |-> 0]
           /\ \A j \in (3 * N + 2)..Len(trace) : trace[j].op \in {"listening", "failed"}

\* two siblings were started; the first one's listen failed, the second
\* one's listen call had been issued all the same and has succeeded
C15_Witness ==
    /\ BatchCall
    /\ Len(Top.kids) = 2
    /\ KidEp(1).status = "listenFailed"
    /\ KidEp(2).status = "listening"
    /\ When("listen", 2) < When("failed", 1)

(***************************************************************************)
(* C16: for every endpoint the steps are taken in the order create, attach *)
(* the error observer, call listen, return the identifier: the observer is *)
(* attached before listen is called, so every error event emitted while    *)
(* or after the endpoint listens is observed and logged; and a call is     *)
(* fulfilled only after its listen has succeeded, with the name listened   *)
(* under.                                                                  *)
(***************************************************************************)
C16_CreateObserveListenReturn ==
    /\ \A e \in 1..Len(endpoints) :
          /\ 0 < When("create", e)
          /\ When("create", e) < When("on", e)
          /\ When("on", e) < When("listen", e)
          /\ When("listening", e) > 0 => When("listen", e) < When("listening", e)
          /\ invs[Owner(e)].state = "fulfilled" =>
                /\ endpoints[e].status = "listening"
                /\ When("listening", e) > 0
                /\ invs[Owner(e)].value = Str(endpoints[e].name)
    /\ \A i \in 1..Len(emitted) :
          /\ emitted[i].during \in {"listenPending", "listening", "listenFailed"}
          /\ endpoints[emitted[i].ep].observers >= 1
    /\ Len(log) >= Len(emitted)
    /\ (Called /\ Top.state = "fulfilled") => AllListening

\* an error was emitted while the listen call was pending and was logged;
\* the listen then succeeded and the call returned the identifier
C16_Witness ==
    /\ SingleCall
    /\ Top.state = "fulfilled"
    /\ Top.value = Str(endpoints[1].name)
    /\ Len(emitted) = 1
    /\ emitted[1].during = "listenPending"
    /\ Len(log) = 1

(***************************************************************************)
(* C17: every endpoint has exactly one error observer and exactly one      *)
(* listen call once its registration is past the listen step (never more   *)
(* than one); no endpoint is closed or destroyed, and a failed listen is   *)
(* never issued again.                                                     *)
(***************************************************************************)
C17_OneObserverOneListen ==
    /\ [](\A e \in 1..Len(endpoints) :
            /\ endpoints[e].observers = 1
            /\ endpoints[e].listens = 1
            /\ endpoints[e].status \in {"listenPending", "listening", "listenFailed"}
            /\ Cardinality({j \in 1..Len(trace) : trace[j] = [op |-> "on", ep |-> e]}) = 1
            /\ Cardinality({j \in 1..Len(trace) : trace[j] = [op |-> "listen", ep |-> e]}) = 1
            /\ Cardinality({j \in 1..Len(trace) : trace[j] = [op |-> "create", ep |-> e]}) = 1)
    /\ [][/\ Len(endpoints') >= Len(endpoints)
          /\ \A e \in 1..Len(endpoints) :
                /\ endpoints'[e].listens = endpoints[e].listens
                /\ endpoints'[e].observers = endpoints[e].observers
                /\ endpoints[e].status = "listenFailed" =>
                      endpoints'[e].status = "listenFailed"]_vars

\* a listen failed, another endpoint's listen succeeded afterwards, and an
\* error event was emitted after that
C17_Witness ==
    /\ Len(endpoints) = 2
    /\ endpoints[1].status = "listenFailed"
    /\ endpoints[2].status = "listening"
    /\ When("failed", 1) < When("listening", 2)
    /\ Len(emitted) = 1
    /\ emitted[1].during = "listenFailed"
    /\ emitted[1].ep = 1

(***************************************************************************)
(* C18: in one namespace call the names passed to listen by the siblings   *)
(* are pairwise distinct, whatever the namespace and whatever the          *)
(* (distinct) property names: empty, ".", "..", or holding a separator.    *)
(***************************************************************************)
C18_DistinctNamesDistinctPaths ==
    BatchCall =>
        \A j, k \in 1..Len(Top.kids) :
            j # k => /\ KidEp(j).name # KidEp(k).name
                     /\ Kid(j).pathOrNamespace # Kid(k).pathOrNamespace

\* the endpoints whose listen call was issued on behalf of invocation i
ListensOf(i) ==
    {e \in 1..Len(endpoints) : Owner(e) = i \/ invs[Owner(e)].parent = i}

(***************************************************************************)
(* C19: when the transport answers every listen call, every call settles   *)
(* in the end, and no call is pending once every listen call it issued has *)
(* settled: a single-handler call is pending exactly while its one listen  *)
(* is; a namespace call is fulfilled once all its siblings' listens have   *)
(* succeeded (at once when it has none), rejected once one has failed,     *)
(* and pending otherwise.                                                  *)
(***************************************************************************)
C19_SettlesWithItsListens ==
    /\ [](\A i \in 1..Len(invs) :
            /\ (\A e \in ListensOf(i) : endpoints[e].status # "listenPending") =>
                   invs[i].state # "pending"
            /\ invs[i].form = "single" =>
                   (invs[i].state = "pending" <=>
                        endpoints[invs[i].ep].status = "listenPending")
            /\ invs[i].form = "batch" =>
                   /\ invs[i].state = "fulfilled" <=>
                         \A e \in ListensOf(i) : endpoints[e].status = "listening"
                   /\ invs[i].state = "rejected" <=>
                         \E e \in ListensOf(i) : endpoints[e].status = "listenFailed")
    /\ <>[](\A i \in 1..Len(invs) : invs[i].state # "pending")

\* a namespace call with two siblings, fulfilled by the second success
C19_Witness ==
    /\ BatchCall
    /\ Len(Top.kids) = 2
    /\ ListensOf(1) = {1, 2}
    /\ AllListening
    /\ Top.state = "fulfilled"

\* a namespace call without any handler: nothing to listen for, fulfilled
C19_WitnessEmpty ==
    /\ BatchCall
    /\ Top.kids = <<>>
    /\ Top.state = "fulfilled"
    /\ Top.value = Arr(<<>>)

(***************************************************************************)
(* C20: getNexus hands out the cached client only when the account has a   *)
(* key, the one the cached client was validated with; otherwise it waits   *)
(* for the login, reads the account again and either makes and caches a    *)
(* client with the key it read then, or rejects without making one when    *)
(* there is no key; and two calls of which one began while the other was   *)
(* under way do not both make a client.                                    *)
(***************************************************************************)
C20_GetNexusCachesOneClient ==
    /\ \A c \in 1..Len(gets) :
          /\ (gets[c].state = "fulfilled" /\ gets[c].via = "cache") =>
                /\ Truthy(gets[c].read)
                /\ gets[c].read = clients[gets[c].value].key
          /\ (gets[c].state = "fulfilled" /\ gets[c].via = "create") =>
                /\ Truthy(gets[c].key)
                /\ clients[gets[c].value] = [key |-> gets[c].key, by |-> c]
          /\ gets[c].state = "rejected" =>
                \A i \in 1..Len(clients) : clients[i].by # c
    /\ nexusApi = Len(clients)
    /\ \A i, j \in 1..Len(clients) :
          i # j => clients[i].by \notin gets[clients[j].by].peers

====
